---- MODULE Spec2Model ----
(***************************************************************************)
(* Tennis Club API (src/main.py): the booking handlers create_booking and  *)
(* my_bookings, the login handler that fills the in-memory token map, and  *)
(* the document store they share.  Every handler runs in its own worker    *)
(* thread, so a handler is a sequence of steps, one per access to the      *)
(* shared state (the TOKENS map, a collection of the database), and the    *)
(* steps of different requests interleave.                                 *)
(*                                                                         *)
(* Times are integers (instants on a discrete clock); a datetime of the    *)
(* payload is the instant it denotes.                                      *)
(***************************************************************************)
EXTENDS Integers, Sequences, FiniteSets, TLC

\* ------------------------------------------------------------- bounds
NumProcs == 2     \* worker threads handling requests at the same time
MaxCalls == 4     \* requests received in a run
MaxTime  == 3     \* instants are 0..MaxTime

Procs  == 1..NumProcs
Times  == 0..MaxTime
Emails == {"ann@club", "bob@club"}
Roles  == {"player", "admin"}
CourtNames == {"Centre"}
\* the intervals a client may ask for: every well-formed one (start < end),
\* an empty one and a reversed one
Intervals == {iv \in Times \X Times : iv[1] < iv[2]} \cup {<<1, 1>>, <<2, 1>>}

VARIABLES
    user,      \* collection "user": sequence of documents, in insertion order
    booking,   \* collection "booking": sequence of documents, in insertion order
    court,     \* collection "court": sequence of documents, in insertion order
    TOKENS,    \* the in-memory token map: token -> user info
    pc,        \* pc[p]: where worker p stands in its handler
    req,       \* req[p]: the request worker p handles (or handled last)
    local,     \* local[p]: the handler's local variables
    resp,      \* resp[p]: the response of the request, once it is done
    calls      \* requests received so far

vars == <<user, booking, court, TOKENS, pc, req, local, resp, calls>>

NoReq   == [op |-> "none"]
NoLocal == [none |-> TRUE]
NoResp  == [status |-> 0]

\* ------------------------------------------------------ identities
\* str(ObjectId) and ObjectId(str): an id and its text form
Str(oid) == <<"oid", oid>>
ObjectId(s) == s[2]
\* f"tok_{str(user['_id'])}"
TokenOf(u) == <<"tok_", Str(u._id)>>
\* a credential no login ever issued: the store assigns no document identity 0
BadToken == <<"tok_", Str(0)>>
\* the court ids a client may name in a booking: the ids of the first two
\* courts, whether or not they have been created
Courts == {Str(1), Str(2)}

\* ------------------------------------------------- persistence gateway
\* the identity the store assigns to the next document of a collection
NewId(coll) == Len(coll) + 1
\* create_document(kind, data): stores data under a new identity
create_document(coll, data) == Append(coll, [_id |-> NewId(coll)] @@ data)
\* the documents of a collection
Range(s) == {s[i] : i \in DOMAIN s}
\* get_documents(kind, filter): the documents the filter matches, as stored
\* (matching is the set of documents of the collection the filter selects)
get_documents(coll, matching) == SelectSeq(coll, LAMBDA d : d \in matching)
\* db.<collection>.find(filter): the driver's query, the matching documents
find(coll, matching) == SelectSeq(coll, LAMBDA d : d \in matching)

\* ------------------------------------------------------ identity resolver
\* get_current_user: token in TOKENS, else HTTP 401
Authenticated(token) == token \in DOMAIN TOKENS
get_current_user(token) == TOKENS[token]
Unauthorized == [status |-> 401, detail |-> "Invalid token"]

\* ------------------------------------------------------ reservation engine
\* a conflict query that only asks whether the new start falls inside d
OverlapFilter_StartInside(d, payload) ==
    /\ d.court_id = payload.court_id
    /\ d.start_time <= payload.start_time
    /\ d.end_time > payload.start_time

\* a conflict query over closed intervals: touching endpoints collide
OverlapFilter_Closed(d, payload) ==
    /\ d.court_id = payload.court_id
    /\ d.start_time <= payload.end_time
    /\ d.end_time >= payload.start_time

\* a conflict query that forgets the court
OverlapFilter_AnyCourt(d, payload) ==
    /\ d.start_time < payload.end_time
    /\ d.end_time > payload.start_time

\* the filter of the conflict query of create_booking
OverlapFilter(d, payload) ==
    /\ d.court_id = payload.court_id
    /\ d.start_time < payload.end_time
    /\ d.end_time > payload.start_time

Conflict == [status |-> 400, detail |-> "Court already booked for that time"]

\* a document with the two instants swapped
BookingData_Swapped(payload, u) ==
    [court_id   |-> payload.court_id,
     start_time |-> payload.end_time,
     end_time   |-> payload.start_time,
     user_id    |-> u.user_id]

\* payload.model_dump() of BookingIn, plus data["user_id"]
BookingData(payload, u) ==
    [court_id   |-> payload.court_id,
     start_time |-> payload.start_time,
     end_time   |-> payload.end_time,
     user_id    |-> u.user_id]

CanBegin(p) == pc[p] \in {"idle", "done"} /\ calls < MaxCalls

\* the tokens a client may present: one per stored user, or a forged one
ClientTokens == {TokenOf(u) : u \in Range(user)} \cup {BadToken}

\* a handler that reads the user out of the token text and never asks TOKENS
CreateBookingAuth_TrustToken(p) ==
    /\ CanBegin(p)
    /\ \E token \in ClientTokens, c \in Courts, iv \in Intervals :
         /\ req' = [req EXCEPT ![p] =
                      [op |-> "create_booking", token |-> token,
                       payload |-> [court_id |-> c, start_time |-> iv[1],
                                    end_time |-> iv[2]]]]
         /\ local' = [local EXCEPT ![p] = [u |-> [user_id |-> token[2]]]]
    /\ pc' = [pc EXCEPT ![p] = "cb_find"]
    /\ resp' = [resp EXCEPT ![p] = NoResp]
    /\ calls' = calls + 1
    /\ UNCHANGED <<court, user, booking, TOKENS>>

\* POST /bookings arrives; _ = get_current_user(token)
CreateBookingAuth(p) ==
    /\ CanBegin(p)
    /\ \E token \in ClientTokens, c \in Courts, iv \in Intervals :
         LET payload == [court_id |-> c, start_time |-> iv[1], end_time |-> iv[2]] IN
         /\ req' = [req EXCEPT ![p] = [op |-> "create_booking", token |-> token,
                                       payload |-> payload]]
         /\ IF Authenticated(token)
              THEN /\ pc' = [pc EXCEPT ![p] = "cb_find"]
                   /\ local' = [local EXCEPT ![p] = [u |-> get_current_user(token)]]
                   /\ resp' = [resp EXCEPT ![p] = NoResp]
              ELSE /\ pc' = [pc EXCEPT ![p] = "done"]
                   /\ local' = [local EXCEPT ![p] = NoLocal]
                   /\ resp' = [resp EXCEPT ![p] = Unauthorized]
    /\ calls' = calls + 1
    /\ UNCHANGED <<court, user, booking, TOKENS>>

\* a handler that writes first and checks afterwards
CreateBookingFind_WriteFirst(p) ==
    /\ pc[p] = "cb_find"
    /\ LET Match == {d \in Range(booking) : OverlapFilter(d, req[p].payload)}
           overlap == find(booking, Match) IN
       /\ booking' = create_document(booking, BookingData(req[p].payload, local[p].u))
       /\ resp' = [resp EXCEPT ![p] = IF overlap # <<>> THEN Conflict
                       ELSE [status |-> 200, id |-> Str(NewId(booking))]]
    /\ pc' = [pc EXCEPT ![p] = "done"]
    /\ local' = [local EXCEPT ![p] = NoLocal]
    /\ UNCHANGED <<court, user, TOKENS, req, calls>>

\* a handler that, turning a request down, removes what it collided with
CreateBookingFind_Evict(p) ==
    /\ pc[p] = "cb_find"
    /\ LET Match == {d \in Range(booking) : OverlapFilter(d, req[p].payload)}
           Keep(d) == d \notin Match
           overlap == find(booking, Match) IN
       IF overlap # <<>>
         THEN /\ pc' = [pc EXCEPT ![p] = "done"]
              /\ local' = [local EXCEPT ![p] = NoLocal]
              /\ resp' = [resp EXCEPT ![p] = Conflict]
              /\ booking' = SelectSeq(booking, Keep)
         ELSE /\ pc' = [pc EXCEPT ![p] = "cb_insert"]
              /\ UNCHANGED <<local, resp, booking>>
    /\ UNCHANGED <<court, user, TOKENS, req, calls>>

\* overlap = list(db.booking.find({...})); if overlap: raise HTTPException(400)
CreateBookingFind(p) ==
    /\ pc[p] = "cb_find"
    /\ LET Match == {d \in Range(booking) : OverlapFilter(d, req[p].payload)}
           overlap == find(booking, Match) IN
       IF overlap # <<>>
         THEN /\ pc' = [pc EXCEPT ![p] = "done"]
              /\ local' = [local EXCEPT ![p] = NoLocal]
              /\ resp' = [resp EXCEPT ![p] = Conflict]
         ELSE /\ pc' = [pc EXCEPT ![p] = "cb_insert"]
              /\ UNCHANGED <<local, resp>>
    /\ UNCHANGED <<court, user, booking, TOKENS, req, calls>>

\* _id = create_document("booking", data); return {"id": _id}
CreateBookingInsert(p) ==
    /\ pc[p] = "cb_insert"
    /\ booking' = create_document(booking, BookingData(req[p].payload, local[p].u))
    /\ pc' = [pc EXCEPT ![p] = "done"]
    /\ local' = [local EXCEPT ![p] = NoLocal]
    /\ resp' = [resp EXCEPT ![p] = [status |-> 200, id |-> Str(NewId(booking))]]
    /\ UNCHANGED <<court, user, TOKENS, req, calls>>

\* GET /my/bookings arrives; u = get_current_user(token)
MyBookingsAuth(p) ==
    /\ CanBegin(p)
    /\ \E token \in ClientTokens :
         /\ req' = [req EXCEPT ![p] = [op |-> "my_bookings", token |-> token]]
         /\ IF Authenticated(token)
              THEN /\ pc' = [pc EXCEPT ![p] = "mb_get"]
                   /\ local' = [local EXCEPT ![p] = [u |-> get_current_user(token)]]
                   /\ resp' = [resp EXCEPT ![p] = NoResp]
              ELSE /\ pc' = [pc EXCEPT ![p] = "done"]
                   /\ local' = [local EXCEPT ![p] = NoLocal]
                   /\ resp' = [resp EXCEPT ![p] = Unauthorized]
    /\ calls' = calls + 1
    /\ UNCHANGED <<court, user, booking, TOKENS>>

\* a handler that lists the whole collection
MyBookingsGet_All(p) ==
    /\ pc[p] = "mb_get"
    /\ resp' = [resp EXCEPT ![p] = [status |-> 200,
                                    body |-> get_documents(booking, Range(booking))]]
    /\ pc' = [pc EXCEPT ![p] = "done"]
    /\ local' = [local EXCEPT ![p] = NoLocal]
    /\ UNCHANGED <<court, user, booking, TOKENS, req, calls>>

\* return get_documents("booking", {"user_id": u["user_id"]})
MyBookingsGet(p) ==
    /\ pc[p] = "mb_get"
    /\ LET Match == {d \in Range(booking) : d.user_id = local[p].u.user_id} IN
       resp' = [resp EXCEPT ![p] = [status |-> 200,
                                    body |-> get_documents(booking, Match)]]
    /\ pc' = [pc EXCEPT ![p] = "done"]
    /\ local' = [local EXCEPT ![p] = NoLocal]
    /\ UNCHANGED <<court, user, booking, TOKENS, req, calls>>

\* ------------------------------------------------------------- login
\* after user is known: the role update is needed iff the roles differ
AfterUser(u, payload) ==
    IF u.role # payload.role THEN "login_update" ELSE "login_token"

\* POST /auth/login arrives; existing = list(db.user.find({"email": ...}).limit(1))
LoginFind(p) ==
    /\ CanBegin(p)
    /\ \E email \in Emails, role \in Roles :
         LET payload == [email |-> email, role |-> role]
             Match == {d \in Range(user) : d.email = email}
             existing == find(user, Match) IN
         /\ req' = [req EXCEPT ![p] = [op |-> "login", payload |-> payload]]
         /\ IF existing # <<>>
              THEN /\ local' = [local EXCEPT ![p] = [user |-> existing[1]]]
                   /\ pc' = [pc EXCEPT ![p] = AfterUser(existing[1], payload)]
              ELSE /\ local' = [local EXCEPT ![p] = NoLocal]
                   /\ pc' = [pc EXCEPT ![p] = "login_create"]
    /\ resp' = [resp EXCEPT ![p] = NoResp]
    /\ calls' = calls + 1
    /\ UNCHANGED <<court, user, booking, TOKENS>>

\* _id = create_document("user", User(email, name, role))
LoginCreate(p) ==
    /\ pc[p] = "login_create"
    /\ user' = create_document(user, [email |-> req[p].payload.email,
                                      role  |-> req[p].payload.role])
    /\ local' = [local EXCEPT ![p] = [_id |-> Str(NewId(user))]]
    /\ pc' = [pc EXCEPT ![p] = "login_find_one"]
    /\ UNCHANGED <<court, booking, TOKENS, req, resp, calls>>

\* user = db.user.find_one({"_id": ObjectId(_id)})
LoginFindOne(p) ==
    /\ pc[p] = "login_find_one"
    /\ LET Match == {d \in Range(user) : d._id = ObjectId(local[p]._id)}
           found == find(user, Match) IN
       /\ local' = [local EXCEPT ![p] = [user |-> found[1]]]
       /\ pc' = [pc EXCEPT ![p] = AfterUser(found[1], req[p].payload)]
    /\ UNCHANGED <<court, user, booking, TOKENS, req, resp, calls>>

\* a handler that updates the stored role and keeps the role it read
LoginUpdate_KeepLocal(p) ==
    /\ pc[p] = "login_update"
    /\ user' = [i \in DOMAIN user |->
                  IF user[i]._id = local[p].user._id
                    THEN [user[i] EXCEPT !.role = req[p].payload.role]
                    ELSE user[i]]
    /\ pc' = [pc EXCEPT ![p] = "login_token"]
    /\ UNCHANGED <<court, booking, TOKENS, req, local, resp, calls>>

\* db.user.update_one({"_id": user["_id"]}, {"$set": {"role": payload.role}})
LoginUpdate(p) ==
    /\ pc[p] = "login_update"
    /\ user' = [i \in DOMAIN user |->
                  IF user[i]._id = local[p].user._id
                    THEN [user[i] EXCEPT !.role = req[p].payload.role]
                    ELSE user[i]]
    /\ local' = [local EXCEPT ![p].user.role = req[p].payload.role]
    /\ pc' = [pc EXCEPT ![p] = "login_token"]
    /\ UNCHANGED <<court, booking, TOKENS, req, resp, calls>>

\* TOKENS[token] = {...}; return LoginResponse(...)
LoginToken(p) ==
    /\ pc[p] = "login_token"
    /\ LET u == local[p].user
           token == TokenOf(u)
           entry == [user_id |-> Str(u._id), role |-> u.role, email |-> u.email] IN
       /\ TOKENS' = [t \in DOMAIN TOKENS \cup {token} |->
                       IF t = token THEN entry ELSE TOKENS[t]]
       /\ resp' = [resp EXCEPT ![p] = [status |-> 200, token |-> token,
                                       role |-> entry.role, user_id |-> entry.user_id]]
    /\ pc' = [pc EXCEPT ![p] = "done"]
    /\ local' = [local EXCEPT ![p] = NoLocal]
    /\ UNCHANGED <<court, user, booking, req, calls>>

\* ------------------------------------------------------------- courts
Forbidden == [status |-> 403, detail |-> "Admins only"]

\* a handler that lets every authenticated caller create a court
CreateCourtAuth_AnyRole(p) ==
    /\ CanBegin(p)
    /\ \E token \in ClientTokens, name \in CourtNames :
         /\ req' = [req EXCEPT ![p] =
                      [op |-> "create_court", token |-> token,
                       payload |-> [name |-> name, surface |-> "hard",
                                    indoor |-> FALSE]]]
         /\ IF ~Authenticated(token)
              THEN /\ pc' = [pc EXCEPT ![p] = "done"]
                   /\ local' = [local EXCEPT ![p] = NoLocal]
                   /\ resp' = [resp EXCEPT ![p] = Unauthorized]
              ELSE /\ pc' = [pc EXCEPT ![p] = "cc_insert"]
                   /\ local' = [local EXCEPT ![p] = [user |-> get_current_user(token)]]
                   /\ resp' = [resp EXCEPT ![p] = NoResp]
    /\ calls' = calls + 1
    /\ UNCHANGED <<court, user, booking, TOKENS>>

\* POST /admin/courts arrives; user = get_current_user(token);
\* if user["role"] != "admin": raise HTTPException(403)
CreateCourtAuth(p) ==
    /\ CanBegin(p)
    /\ \E token \in ClientTokens, name \in CourtNames :
         LET payload == [name |-> name, surface |-> "hard", indoor |-> FALSE] IN
         /\ req' = [req EXCEPT ![p] = [op |-> "create_court", token |-> token,
                                       payload |-> payload]]
         /\ IF ~Authenticated(token)
              THEN /\ pc' = [pc EXCEPT ![p] = "done"]
                   /\ local' = [local EXCEPT ![p] = NoLocal]
                   /\ resp' = [resp EXCEPT ![p] = Unauthorized]
              ELSE IF get_current_user(token).role # "admin"
                THEN /\ pc' = [pc EXCEPT ![p] = "done"]
                     /\ local' = [local EXCEPT ![p] = NoLocal]
                     /\ resp' = [resp EXCEPT ![p] = Forbidden]
                ELSE /\ pc' = [pc EXCEPT ![p] = "cc_insert"]
                     /\ local' = [local EXCEPT ![p] = [user |-> get_current_user(token)]]
                     /\ resp' = [resp EXCEPT ![p] = NoResp]
    /\ calls' = calls + 1
    /\ UNCHANGED <<court, user, booking, TOKENS>>

\* _id = create_document("court", payload.model_dump()); return {"id": _id}
CreateCourtInsert(p) ==
    /\ pc[p] = "cc_insert"
    /\ court' = create_document(court, req[p].payload)
    /\ pc' = [pc EXCEPT ![p] = "done"]
    /\ local' = [local EXCEPT ![p] = NoLocal]
    /\ resp' = [resp EXCEPT ![p] = [status |-> 200, id |-> Str(NewId(court))]]
    /\ UNCHANGED <<user, booking, TOKENS, req, calls>>

\* ------------------------------------------------------ specifications
Init ==
    /\ user = <<>>
    /\ booking = <<>>
    /\ court = <<>>
    /\ TOKENS = <<>>
    /\ pc = [p \in Procs |-> "idle"]
    /\ req = [p \in Procs |-> NoReq]
    /\ local = [p \in Procs |-> NoLocal]
    /\ resp = [p \in Procs |-> NoResp]
    /\ calls = 0

Step(p) ==
    \/ LoginFind(p)
    \/ LoginCreate(p)
    \/ LoginFindOne(p)
    \/ LoginUpdate(p)
    \/ LoginToken(p)
    \/ CreateBookingAuth(p)
    \/ CreateBookingFind(p)
    \/ CreateBookingInsert(p)
    \/ MyBookingsAuth(p)
    \/ MyBookingsGet(p)

\* requests handled concurrently: the steps of the workers interleave
Next == \E p \in Procs : Step(p)
Spec == Init /\ [][Next]_vars

\* requests handled one at a time: a worker moves only while the others rest
Resting(p) == pc[p] \in {"idle", "done"}
SeqNext == \E p \in Procs : (\A q \in Procs \ {p} : Resting(q)) /\ Step(p)
SeqSpec == Init /\ [][SeqNext]_vars

\* the login handler alone (the only writer of TOKENS and of the user
\* collection), its requests concurrent or one at a time
LoginStep(p) ==
    \/ LoginFind(p)
    \/ LoginCreate(p)
    \/ LoginFindOne(p)
    \/ LoginUpdate(p)
    \/ LoginToken(p)

LoginNext == \E p \in Procs : LoginStep(p)
LoginSpec == Init /\ [][LoginNext]_vars

LoginSeqNext == \E p \in Procs : (\A q \in Procs \ {p} : Resting(q)) /\ LoginStep(p)
LoginSeqSpec == Init /\ [][LoginSeqNext]_vars

\* login, court creation and booking, concurrent (my_bookings writes nothing)
AdminStep(p) ==
    \/ LoginStep(p)
    \/ CreateCourtAuth(p)
    \/ CreateCourtInsert(p)
    \/ CreateBookingAuth(p)
    \/ CreateBookingFind(p)
    \/ CreateBookingInsert(p)

AdminNext == \E p \in Procs : AdminStep(p)
AdminSpec == Init /\ [][AdminNext]_vars

\* the process starts on a database that outlives it: one user and one
\* reservation of that user, stored as the Booking schema shapes it and
\* cancelled since; TOKENS starts empty
StoredInit ==
    /\ user = <<[_id |-> 1, email |-> "ann@club", role |-> "player"]>>
    /\ booking = <<[_id |-> 1, court_id |-> Str(1), start_time |-> 0,
                    end_time |-> 2, user_id |-> Str(1), status |-> "cancelled"]>>
    /\ court = <<>>
    /\ TOKENS = <<>>
    /\ pc = [p \in Procs |-> "idle"]
    /\ req = [p \in Procs |-> NoReq]
    /\ local = [p \in Procs |-> NoLocal]
    /\ resp = [p \in Procs |-> NoResp]
    /\ calls = 0

StoredSpec == StoredInit /\ [][SeqNext]_vars

\* ------------------------------------------------------------- claims
\* two reservations as the data model compares them (half-open intervals)
Overlap(a, b) == a.start_time < b.end_time /\ b.start_time < a.end_time
WellFormed(d) == d.start_time < d.end_time
IsCreate(p) == req[p].op = "create_booking"
Succeeded(p) == pc[p] = "done" /\ IsCreate(p) /\ resp[p].status = 200
Rejected(p) == pc[p] = "done" /\ IsCreate(p) /\ resp[p] = Conflict

\* C1: with the calls executed one at a time from an empty store, no two
\* stored reservations of the same resource overlap (the code stores no
\* cancelled reservation, so every stored reservation counts)
C1_NoDoubleBooking ==
    \A i, j \in DOMAIN booking :
        (i # j /\ booking[i].court_id = booking[j].court_id)
            => ~Overlap(booking[i], booking[j])

\* C1 witness: two well-formed reservations of one court are stored and a
\* third request for that court was turned down
C1_Witness ==
    \E i, j \in DOMAIN booking, p \in Procs :
        /\ i # j /\ booking[i].court_id = booking[j].court_id
        /\ WellFormed(booking[i]) /\ WellFormed(booking[j])
        /\ Rejected(p) /\ req[p].payload.court_id = booking[i].court_id

\* C2: when requests with pairwise overlapping (well-formed) intervals for one resource
\* have all been answered, and the resource holds no reservation but theirs,
\* exactly one of them succeeded and the others got the conflict error
C2_ExactlyOneSucceeds ==
    \A c \in Courts :
        LET S == {p \in Procs : /\ pc[p] = "done" /\ IsCreate(p)
                                /\ resp[p].status \in {200, 400}
                                /\ req[p].payload.court_id = c
                                /\ WellFormed(req[p].payload)}
            Won == {p \in S : resp[p].status = 200}
        IN  (/\ Cardinality(S) >= 2
             /\ \A p, q \in S : p # q => Overlap(req[p].payload, req[q].payload)
             /\ \A d \in Range(booking) :
                   d.court_id = c => \E p \in Won : resp[p].id = Str(d._id))
            => /\ Cardinality(Won) = 1
               /\ \A p \in S \ Won : resp[p] = Conflict

\* C3: in every interleaving, no state of the store holds two reservations
\* of one resource whose half-open intervals share an instant
C3_NoSharedInstant ==
    \A i, j \in DOMAIN booking :
        (i # j /\ booking[i].court_id = booking[j].court_id)
            => ~ \E t \in Times :
                   /\ booking[i].start_time <= t /\ t < booking[i].end_time
                   /\ booking[j].start_time <= t /\ t < booking[j].end_time

\* the store holds a reservation of the payload's resource that overlaps it
HoldsOverlapping(payload) ==
    \E x \in Range(booking) :
        /\ x.court_id = payload.court_id
        /\ x.start_time < payload.end_time
        /\ payload.start_time < x.end_time

\* C4: an authenticated request whose conflict query runs while the store
\* holds an overlapping reservation of its resource is turned down with the
\* conflict error (HTTP 400) and writes nothing
C4_OverlapRejected ==
    [][\A p \in Procs :
          (pc[p] = "cb_find" /\ pc'[p] # "cb_find" /\ HoldsOverlapping(req[p].payload))
              => (pc'[p] = "done" /\ resp'[p] = Conflict /\ booking' = booking)]_vars

\* C4 witness: a request lying strictly inside a stored reservation was
\* turned down
C4_Witness ==
    \E p \in Procs, x \in Range(booking) :
        /\ Rejected(p)
        /\ x.court_id = req[p].payload.court_id
        /\ WellFormed(req[p].payload)
        /\ x.start_time < req[p].payload.start_time
        /\ req[p].payload.end_time < x.end_time

\* every stored reservation of the payload's resource ends by its start or
\* starts at or after its end
Free(payload) ==
    \A x \in Range(booking) :
        x.court_id = payload.court_id
            => (x.end_time <= payload.start_time \/ payload.end_time <= x.start_time)

\* C5: an authenticated request whose conflict query runs while every stored
\* reservation of its resource leaves its interval free (touching endpoints
\* included) goes on to the write, and the write stores the requested
\* reservation and answers 200 with its id
C5_TouchingAccepted ==
    [][\A p \in Procs :
          /\ (pc[p] = "cb_find" /\ pc'[p] # "cb_find" /\ Free(req[p].payload))
                => pc'[p] = "cb_insert"
          /\ (pc[p] = "cb_insert" /\ pc'[p] # "cb_insert")
                => /\ pc'[p] = "done" /\ resp'[p].status = 200
                   /\ Len(booking') = Len(booking) + 1
                   /\ \E i \in DOMAIN booking' :
                        /\ Str(booking'[i]._id) = resp'[p].id
                        /\ booking'[i].court_id = req[p].payload.court_id
                        /\ booking'[i].start_time = req[p].payload.start_time
                        /\ booking'[i].end_time = req[p].payload.end_time]_vars

\* C5 witness: [a, b) and then [b, c) were both booked on one court
C5_Witness ==
    \E i, j \in DOMAIN booking, p \in Procs :
        /\ i < j /\ booking[i].court_id = booking[j].court_id
        /\ WellFormed(booking[i]) /\ WellFormed(booking[j])
        /\ booking[i].end_time = booking[j].start_time
        /\ Succeeded(p) /\ resp[p].id = Str(booking[j]._id)

\* C6: a step that ends a create_booking call in failure (400 or 401) leaves
\* the store as it was, and the only step that changes the store is the one
\* that ends a call with success: a failed call has written nothing
C6_FailureWritesNothing ==
    [][/\ \A p \in Procs :
            (/\ <<pc[p], req[p], resp[p]>> # <<pc'[p], req'[p], resp'[p]>>
             /\ pc'[p] = "done" /\ req'[p].op = "create_booking"
             /\ resp'[p].status \in {400, 401})
                => booking' = booking
       /\ booking' # booking
            => \E p \in Procs : /\ pc[p] = "cb_insert" /\ pc'[p] = "done"
                                /\ resp'[p].status = 200]_vars

\* C6 witness: with a reservation stored, one call was turned down for a
\* conflict and another for its token
C6_Witness ==
    /\ booking # <<>>
    /\ \E p, q \in Procs :
        /\ Rejected(p)
        /\ pc[q] = "done" /\ IsCreate(q) /\ resp[q] = Unauthorized

\* C7: once a request for (resource, interval) was turned down for a
\* conflict, the same request submitted again is turned down again
C7_RejectionIdempotent ==
    [][\A p, q \in Procs :
          (/\ p # q /\ Rejected(p)
           /\ pc[q] = "cb_find" /\ pc'[q] # "cb_find"
           /\ req[q].payload = req[p].payload)
              => (pc'[q] = "done" /\ resp'[q] = Conflict)]_vars

\* C7 witness: the same request was turned down twice
C7_Witness ==
    \E p, q \in Procs :
        /\ p # q /\ Rejected(p) /\ Rejected(q)
        /\ req[p].payload = req[q].payload

\* C8: the list my_bookings returns is ordered by start_time ascending
\* (stated for lists of well-formed reservations)
C8_ListOrdered ==
    \A p \in Procs :
        (/\ pc[p] = "done" /\ req[p].op = "my_bookings" /\ resp[p].status = 200
         /\ \A i \in DOMAIN resp[p].body : WellFormed(resp[p].body[i]))
            => \A i, j \in DOMAIN resp[p].body :
                  i < j => resp[p].body[i].start_time <= resp[p].body[j].start_time

\* C9: every stored (well-formed) reservation document has the fields of the
\* document shape and carries status = confirmed
C9_StatusConfirmed ==
    \A d \in Range(booking) :
        WellFormed(d) =>
            /\ {"court_id", "user_id", "start_time", "end_time", "status"} \subseteq DOMAIN d
            /\ d.status = "confirmed"

\* C10: a create_booking or my_bookings call whose token is not in TOKENS
\* has ended with 401 without reaching the store, and every stored
\* reservation belongs to a user whose token a login has put into TOKENS
C10_UnknownTokenRefused ==
    /\ \A p \in Procs :
          (req[p].op \in {"create_booking", "my_bookings"}
              /\ req[p].token \notin DOMAIN TOKENS)
            => (pc[p] = "done" /\ resp[p] = Unauthorized)
    /\ \A d \in Range(booking) :
          \E t \in DOMAIN TOKENS :
              /\ TOKENS[t].user_id = d.user_id
              /\ t = <<"tok_", d.user_id>>

\* C10 witness: with a reservation stored, a create_booking call and a
\* my_bookings call were refused for their token
C10_Witness ==
    /\ booking # <<>>
    /\ \E p, q \in Procs :
        /\ pc[p] = "done" /\ IsCreate(p) /\ resp[p] = Unauthorized
        /\ pc[q] = "done" /\ req[q].op = "my_bookings" /\ resp[q] = Unauthorized

\* worker p takes a step
Moves(p) == <<pc[p], req[p], local[p], resp[p]>> # <<pc'[p], req'[p], local'[p], resp'[p]>>
Quiescent == \A p \in Procs : Resting(p)
IsCancelled(d) == "status" \in DOMAIN d /\ d.status = "cancelled"

\* C11: every stored reservation has start_time < end_time
C11_StartBeforeEnd ==
    \A d \in Range(booking) : d.start_time < d.end_time

C13_SuccessWritesOne ==
    [][\A p \in Procs :
          /\ (pc[p] = "cb_insert" /\ pc'[p] # "cb_insert")
                => /\ Len(booking') = Len(booking) + 1
                   /\ SubSeq(booking', 1, Len(booking)) = booking
                   /\ LET d == booking'[Len(booking')] IN
                        /\ d.court_id = req[p].payload.court_id
                        /\ d.start_time = req[p].payload.start_time
                        /\ d.end_time = req[p].payload.end_time
                        /\ d.user_id = TOKENS[req[p].token].user_id
                        /\ resp'[p] = [status |-> 200, id |-> Str(d._id)]
                        /\ \A x \in Range(booking) : x._id # d._id
          /\ (Moves(p) /\ pc[p] # "cb_insert" /\ req'[p].op = "create_booking")
                => booking' = booking]_vars

\* C13 witness: a call succeeded on a store that already held a reservation
C13_Witness ==
    \E p \in Procs :
        /\ Succeeded(p) /\ Len(booking) >= 2
        /\ resp[p].id = Str(booking[Len(booking)]._id)

\* C14: every reservation of the store stays in it, unchanged, in every step
C14_StoreOnlyGrows ==
    [][\A i \in DOMAIN booking :
          i \in DOMAIN booking' /\ booking'[i] = booking[i]]_vars

\* C14 witness: two reservations are stored and a list was served
C14_Witness ==
    /\ Len(booking) >= 2
    /\ \E p \in Procs :
        pc[p] = "done" /\ req[p].op = "my_bookings" /\ resp[p].status = 200

\* C15: my_bookings answers with exactly the stored reservations whose
\* user_id is the caller's, each once, and no step of a my_bookings call
\* changes the store, the users or TOKENS
C15_ListExactAndReadOnly ==
    [][\A p \in Procs :
          /\ (pc[p] = "mb_get" /\ pc'[p] # "mb_get")
                => /\ resp'[p].status = 200
                   /\ Range(resp'[p].body) =
                        {d \in Range(booking) :
                            d.user_id = TOKENS[req[p].token].user_id}
                   /\ Cardinality(Range(resp'[p].body)) = Len(resp'[p].body)
          /\ (Moves(p) /\ req'[p].op = "my_bookings")
                => <<booking, user, court, TOKENS>>' = <<booking, user, court, TOKENS>>]_vars

\* C15 witness: a user was served a list that leaves out another user's
\* reservation
C15_Witness ==
    \E p \in Procs :
        /\ pc[p] = "done" /\ req[p].op = "my_bookings" /\ resp[p].status = 200
        /\ \E d \in Range(booking) :
              /\ d.user_id # TOKENS[req[p].token].user_id
              /\ \A i \in DOMAIN resp[p].body : resp[p].body[i] # d

\* C16: every stored reservation names a court that was created
C16_KnownResource ==
    \A d \in Range(booking) :
        \E c \in Range(court) : Str(c._id) = d.court_id

\* C17: a request is turned down only for a reservation of its own resource,
\* and two answered requests for different resources, when those resources
\* hold no reservation but theirs, have both succeeded
C17_ResourcesIndependent ==
    /\ \A p \in Procs :
          Rejected(p) =>
              \E x \in Range(booking) :
                  x.court_id = req[p].payload.court_id /\ Overlap(x, req[p].payload)
    /\ \A p, q \in Procs :
          (/\ pc[p] = "done" /\ IsCreate(p) /\ resp[p].status \in {200, 400}
           /\ pc[q] = "done" /\ IsCreate(q) /\ resp[q].status \in {200, 400}
           /\ req[p].payload.court_id # req[q].payload.court_id
           /\ \A d \in Range(booking) :
                 d.court_id \in {req[p].payload.court_id, req[q].payload.court_id}
                    => \E w \in {p, q} : Succeeded(w) /\ resp[w].id = Str(d._id))
            => (Succeeded(p) /\ Succeeded(q))

\* C17 witness: the same interval is booked on two courts
C17_Witness ==
    \E p, q \in Procs :
        /\ Succeeded(p) /\ Succeeded(q)
        /\ WellFormed(req[p].payload)
        /\ req[p].payload.court_id # req[q].payload.court_id
        /\ req[p].payload.start_time = req[q].payload.start_time
        /\ req[p].payload.end_time = req[q].payload.end_time
        /\ Len(booking) = 2

\* C18: a create_court call with an unknown token ends with 401 and one
\* whose token's role is not admin ends with 403, neither creating a court;
\* a court is stored only by a call whose token's role was admin when
\* get_current_user read it
C18_AdminOnly ==
    [][/\ \A p \in Procs :
            (Moves(p) /\ Resting(p) /\ req'[p].op = "create_court")
                => /\ court' = court
                   /\ req'[p].token \notin DOMAIN TOKENS
                        => (pc'[p] = "done" /\ resp'[p] = Unauthorized)
                   /\ (req'[p].token \in DOMAIN TOKENS
                         /\ TOKENS[req'[p].token].role # "admin")
                        => (pc'[p] = "done" /\ resp'[p] = Forbidden)
       /\ court' # court
            => \E p \in Procs :
                  /\ pc[p] = "cc_insert" /\ pc'[p] = "done"
                  /\ req[p].op = "create_court"
                  /\ local[p].user.role = "admin"
                  /\ resp'[p].status = 200
                  /\ Len(court') = Len(court) + 1]_vars

\* C18 witness: a court is stored and a call by a player was refused
C18_Witness ==
    /\ court # <<>>
    /\ \E q \in Procs :
        pc[q] = "done" /\ req[q].op = "create_court" /\ resp[q] = Forbidden

\* C19: the user collection holds at most one document per email
C19_OneUserPerEmail ==
    \A i, j \in DOMAIN user : user[i].email = user[j].email => i = j

\* C20: every TOKENS entry names an existing user, its key is tok_ followed
\* by that user's id and, once the login calls have returned, its role is
\* the role stored for that user; no step removes a token
C20_TokensConsistent ==
    /\ [](\A t \in DOMAIN TOKENS :
            /\ t = <<"tok_", TOKENS[t].user_id>>
            /\ \E u \in Range(user) :
                  /\ Str(u._id) = TOKENS[t].user_id
                  /\ Quiescent => TOKENS[t].role = u.role)
    /\ [][DOMAIN TOKENS \subseteq DOMAIN TOKENS'
            /\ \A t \in DOMAIN TOKENS : TOKENS'[t].user_id = TOKENS[t].user_id]_vars

\* C20 witness: two users hold tokens and one of them has logged in again
\* under another role
C20_Witness ==
    /\ Quiescent
    /\ Cardinality(DOMAIN TOKENS) = 2
    /\ \E p, q \in Procs :
        /\ req[p].op = "login" /\ req[q].op = "login"
        /\ resp[p].status = 200 /\ resp[q].status = 200
        /\ resp[p].user_id = resp[q].user_id
        /\ resp[p].role # resp[q].role

====
